---------------------------- MODULE Spec2Model ----------------------------
(***************************************************************************)
(* scripts/gltf_to_obj_texture.py: split_metallic_roughness.               *)
(*                                                                         *)
(* The script asks for a file, opens it as an image, converts it to RGB    *)
(* when its mode is another one, splits it into its three bands and saves  *)
(* them beside the source as <name>_AO.png, <name>_Roughness.png and       *)
(* <name>_Metallic.png.                                                    *)
(*                                                                         *)
(* A path is a sequence of one-character strings.  A file system is a      *)
(* function from the paths that exist to file contents.  An image is a     *)
(* record [mode, size, data], data giving each pixel's tuple of band       *)
(* values (bytes).  A file is what an encoder wrote: [fmt, mode, size,     *)
(* data], or bytes no decoder identifies.                                  *)
(***************************************************************************)
EXTENDS Integers, Sequences, FiniteSets, TLC

VARIABLES
    pc,             \* the statement the run is at, or how it ended
    fs,             \* the file system: path -> file content
    file_path,      \* line 10
    img,            \* lines 19-21
    r, g, b,        \* line 23
    folder, filename, name, ext,            \* lines 25-26
    ao_path, roughness_path, metallic_path, \* lines 29-31
    stdout,         \* what print() wrote, a sequence of messages
    exc,            \* the exception that ended the run, or NoExc
    stages,         \* history: the pipeline stages completed by this run
    attempted,      \* history: the paths this run called save() on
    fs0,            \* history: the file system when this run started
    prev            \* history: the previous run, <<>> in the first run

vars == <<pc, fs, file_path, img, r, g, b, folder, filename, name, ext,
          ao_path, roughness_path, metallic_path, stdout, exc,
          stages, attempted, fs0, prev>>

locals == <<img, r, g, b, folder, filename, name, ext,
            ao_path, roughness_path, metallic_path>>

-----------------------------------------------------------------------------
(* Bounds of the model *)

\* the longest stem of a source path offered by the file dialog
MaxStem == 2

\* the widest source image
MaxW == 1

Heights == {1, 2}
Seeds == {250}
Alphas == {0, 77}
Alphabet == {"/", ".", "a"}

-----------------------------------------------------------------------------
(* Strings *)

None == "None"
NoExc == [type |-> "None"]
Empty == <<>>

AO_SUFFIX == <<"_", "A", "O", ".", "p", "n", "g">>
ROUGHNESS_SUFFIX ==
    <<"_", "R", "o", "u", "g", "h", "n", "e", "s", "s", ".", "p", "n", "g">>
METALLIC_SUFFIX ==
    <<"_", "M", "e", "t", "a", "l", "l", "i", "c", ".", "p", "n", "g">>

sep == "/"
extsep == "."

\* str.rfind(c), 1-based: the last index of c in p, 0 when there is none
rfind(p, c) ==
    LET hits == {i \in 1..Len(p) : p[i] = c}
    IN IF hits = {} THEN 0 ELSE CHOOSE i \in hits : \A j \in hits : j <= i

\* str.rstrip(c)
rstrip(p, c) ==
    LET keep == {i \in 1..Len(p) : p[i] # c}
        last == IF keep = {} THEN 0
                ELSE CHOOSE i \in keep : \A j \in keep : j <= i
    IN SubSeq(p, 1, last)

\* posixpath.split
os_path_split(p) ==
    LET i == rfind(p, sep)
        head == SubSeq(p, 1, i)
        tail == SubSeq(p, i + 1, Len(p))
    IN <<IF head # Empty /\ (\E k \in 1..Len(head) : head[k] # sep)
         THEN rstrip(head, sep) ELSE head,
         tail>>

\* os_path_splitext cutting at the first dot of the component, not the last
os_path_splitext_first(p) ==
    LET sepIndex == rfind(p, sep)
        dots == {i \in (sepIndex + 1)..Len(p) : p[i] = extsep}
        dotIndex == IF dots = {} THEN 0
                    ELSE CHOOSE i \in dots : \A j \in dots : i <= j
    IN IF dotIndex > sepIndex + 1
       THEN <<SubSeq(p, 1, dotIndex - 1), SubSeq(p, dotIndex, Len(p))>>
       ELSE <<p, Empty>>

\* genericpath._splitext: the extension starts at the last dot of the last
\* component, unless only dots precede it there
os_path_splitext(p) ==
    LET sepIndex == rfind(p, sep)
        dotIndex == rfind(p, extsep)
    IN IF dotIndex > sepIndex
          /\ \E k \in (sepIndex + 1)..(dotIndex - 1) : p[k] # extsep
       THEN <<SubSeq(p, 1, dotIndex - 1), SubSeq(p, dotIndex, Len(p))>>
       ELSE <<p, Empty>>

\* posixpath.join of two components
os_path_join(a, c) ==
    IF c # Empty /\ c[1] = sep THEN c
    ELSE IF a = Empty \/ a[Len(a)] = sep THEN a \o c
    ELSE a \o <<sep>> \o c

-----------------------------------------------------------------------------
(* Images and files *)

Coords(size) == (1..size[1]) \X (1..size[2])

Bands(mode) == CASE mode = "RGB" -> 3 [] mode = "RGBA" -> 4 [] mode = "L" -> 1

\* convert blending an RGBA image's colours with its alpha band
convert_premultiplied(im) ==
    [mode |-> "RGB", size |-> im.size,
     data |-> [xy \in Coords(im.size) |->
                 IF im.mode = "L"
                 THEN <<im.data[xy][1], im.data[xy][1], im.data[xy][1]>>
                 ELSE <<(im.data[xy][1] * im.data[xy][4]) \div 255,
                        (im.data[xy][2] * im.data[xy][4]) \div 255,
                        (im.data[xy][3] * im.data[xy][4]) \div 255>>]]

\* Image.convert('RGB'): RGBA drops its alpha band, L is replicated
convert(im) ==
    [mode |-> "RGB", size |-> im.size,
     data |-> [xy \in Coords(im.size) |->
                 IF im.mode = "L"
                 THEN <<im.data[xy][1], im.data[xy][1], im.data[xy][1]>>
                 ELSE <<im.data[xy][1], im.data[xy][2], im.data[xy][3]>>]]

\* getchannel halving every value
getchannel_scaled(im, i) ==
    [mode |-> "L", size |-> im.size,
     data |-> [xy \in Coords(im.size) |-> <<im.data[xy][i] \div 2>>]]

\* Image.getchannel: band i of im as a single-band image
getchannel(im, i) ==
    [mode |-> "L", size |-> im.size,
     data |-> [xy \in Coords(im.size) |-> <<im.data[xy][i]>>]]

\* split giving the bands in reverse order
img_split_bgr(im) ==
    [i \in 1..Bands(im.mode) |-> getchannel(im, Bands(im.mode) + 1 - i)]

\* Image.split: one image per band, in band order
img_split(im) == [i \in 1..Bands(im.mode) |-> getchannel(im, i)]

\* the PNG encoder (Image.save) and decoder (Image.open)
encode(im) == [fmt |-> "PNG", mode |-> im.mode, size |-> im.size,
               data |-> im.data]
decode(f) == [mode |-> f.mode, size |-> f.size, data |-> f.data]

Garbage == [fmt |-> "garbage"]
Truncated == [fmt |-> "truncated"]
Decodable(f) == f.fmt = "PNG"

\* a source image whose band values all differ: band c of pixel (x, y)
MkImage(mode, w, h, seed, alpha) ==
    [mode |-> mode, size |-> <<w, h>>,
     data |-> [xy \in Coords(<<w, h>>) |->
        LET k == seed + 3 * ((xy[2] - 1) * w + (xy[1] - 1))
        IN CASE mode = "RGB" -> <<k % 256, (k + 1) % 256, (k + 2) % 256>>
             [] mode = "RGBA" -> <<k % 256, (k + 1) % 256, (k + 2) % 256,
                                   (alpha + xy[1]) % 256>>
             [] mode = "L" -> <<k % 256>>]]

Images ==
    {MkImage("RGB", w, h, s, 0) : w \in 1..MaxW, h \in Heights, s \in Seeds}
    \cup {MkImage("L", w, h, s, 0) : w \in 1..MaxW, h \in Heights, s \in Seeds}
    \cup UNION {{MkImage("RGBA", w, h, s, a) : w \in 1..MaxW, h \in Heights}
                : <<s, a>> \in Seeds \X Alphas}

Contents == {encode(im) : im \in Images} \cup {Garbage}

-----------------------------------------------------------------------------
(* Paths offered as sources *)

RECURSIVE SeqsUpTo(_, _)
SeqsUpTo(S, n) ==
    IF n = 0 THEN {Empty}
    ELSE LET shorter == SeqsUpTo(S, n - 1)
         IN shorter \cup {Append(s, c) : s \in shorter, c \in S}

Stems == SeqsUpTo(Alphabet, MaxStem)

Tails == {Empty, <<".", "p", "n", "g">>, <<".", "j", "p", "g">>,
          <<"_", "A", "O">>}

\* what follows the last separator of p
LastComponent(p) == SubSeq(p, rfind(p, sep) + 1, Len(p))

\* a name a regular file can have: not empty, not "." and not ".."
FileName(n) == n \notin {Empty, <<".">>, <<".", ".">>}

\* the dialog returns absolute paths of files
SrcPaths == {p \in {<<sep>> \o s \o t : s \in Stems, t \in Tails} :
               FileName(LastComponent(p))}

\* a name typed into the dialog, whether or not such a file exists
TypedPaths == {<<"/", "a", ".", "p", "n", "g">>}

NoFiles == [p \in {} |-> Garbage]

-----------------------------------------------------------------------------
(* The run *)

Init ==
    /\ pc = "select"
    /\ fs \in {NoFiles} \cup {p :> c : p \in SrcPaths, c \in Contents}
    /\ file_path = None
    /\ img = None /\ r = None /\ g = None /\ b = None
    /\ folder = None /\ filename = None /\ name = None /\ ext = None
    /\ ao_path = None /\ roughness_path = None /\ metallic_path = None
    /\ stdout = <<>>
    /\ exc = NoExc
    /\ stages = <<>>
    /\ attempted = {}
    /\ fs0 = fs
    /\ prev = <<>>

\* Select without the return after "No file selected."
Select_noreturn ==
    /\ pc = "select"
    /\ \E p \in {Empty} \cup DOMAIN fs \cup TypedPaths :
         /\ file_path' = p
         /\ stdout' = IF p = Empty
                      THEN Append(stdout, <<"No file selected.">>)
                      ELSE stdout
         /\ pc' = "open"
    /\ UNCHANGED <<fs, locals, exc, stages, attempted, fs0, prev>>

\* lines 8-16: the dialog returns "" (cancelled) or a path
Select ==
    /\ pc = "select"
    /\ \E p \in {Empty} \cup DOMAIN fs \cup TypedPaths :
         /\ file_path' = p
         /\ IF p = Empty
            THEN /\ stdout' = Append(stdout, <<"No file selected.">>)
                 /\ pc' = "returned"
            ELSE /\ stdout' = stdout
                 /\ pc' = "open"
    /\ UNCHANGED <<fs, locals, exc, stages, attempted, fs0, prev>>

\* Open going on with a blank image when the file cannot be opened
Open_swallow ==
    /\ pc = "open"
    /\ img' = IF file_path \in DOMAIN fs /\ Decodable(fs[file_path])
              THEN decode(fs[file_path])
              ELSE [mode |-> "RGB", size |-> <<1, 1>>,
                    data |-> [xy \in Coords(<<1, 1>>) |-> <<0, 0, 0>>]]
    /\ stages' = Append(stages, "Loaded")
    /\ pc' = "convert"
    /\ UNCHANGED <<fs, file_path, r, g, b, folder, filename, name, ext,
                   ao_path, roughness_path, metallic_path, stdout, exc,
                   attempted, fs0, prev>>

\* line 19: Image.open raises when the file is missing or not an image
Open ==
    /\ pc = "open"
    /\ IF file_path \notin DOMAIN fs
       THEN /\ exc' = [type |-> "FileNotFoundError", filename |-> file_path]
            /\ pc' = "raised"
            /\ UNCHANGED <<img, stages>>
       ELSE IF ~Decodable(fs[file_path])
       THEN /\ exc' = [type |-> "UnidentifiedImageError",
                       filename |-> file_path]
            /\ pc' = "raised"
            /\ UNCHANGED <<img, stages>>
       ELSE /\ img' = decode(fs[file_path])
            /\ stages' = Append(stages, "Loaded")
            /\ pc' = "convert"
            /\ exc' = exc
    /\ UNCHANGED <<fs, file_path, r, g, b, folder, filename, name, ext,
                   ao_path, roughness_path, metallic_path, stdout,
                   attempted, fs0, prev>>

\* lines 20-21
Convert ==
    /\ pc = "convert"
    /\ img' = IF img.mode # "RGB" THEN convert(img) ELSE img
    /\ stages' = Append(stages, "Normalized")
    /\ pc' = "split"
    /\ UNCHANGED <<fs, file_path, r, g, b, folder, filename, name, ext,
                   ao_path, roughness_path, metallic_path, stdout, exc,
                   attempted, fs0, prev>>

\* line 23
Split ==
    /\ pc = "split"
    /\ LET planes == img_split(img)
       IN /\ r' = planes[1]
          /\ g' = planes[2]
          /\ b' = planes[3]
    /\ stages' = Append(stages, "Extracted")
    /\ pc' = "paths"
    /\ UNCHANGED <<fs, file_path, img, folder, filename, name, ext,
                   ao_path, roughness_path, metallic_path, stdout, exc,
                   attempted, fs0, prev>>

\* line 29
ao_path_of(dir, base) == os_path_join(dir, base \o AO_SUFFIX)

\* line 30
roughness_path_of(dir, base) == os_path_join(dir, base \o ROUGHNESS_SUFFIX)

\* the metallic path built with the roughness suffix
metallic_path_of_dup(dir, base) ==
    os_path_join(dir, base \o ROUGHNESS_SUFFIX)

\* line 31
metallic_path_of(dir, base) == os_path_join(dir, base \o METALLIC_SUFFIX)

\* lines 25-31
Paths ==
    /\ pc = "paths"
    /\ LET ft == os_path_split(file_path)
           ne == os_path_splitext(ft[2])
       IN /\ folder' = ft[1]
          /\ filename' = ft[2]
          /\ name' = ne[1]
          /\ ext' = ne[2]
          /\ ao_path' = ao_path_of(ft[1], ne[1])
          /\ roughness_path' = roughness_path_of(ft[1], ne[1])
          /\ metallic_path' = metallic_path_of(ft[1], ne[1])
    /\ pc' = "save_ao"
    /\ UNCHANGED <<fs, file_path, img, r, g, b, stdout, exc,
                   stages, attempted, fs0, prev>>

\* save writing a file that differs from run to run
save_stamped(plane, path, next) ==
    /\ attempted' = attempted \cup {path}
    /\ \/ /\ fs' = (path :> [fmt |-> "PNG", mode |-> plane.mode,
                             size |-> plane.size, data |-> plane.data,
                             stamp |-> Len(prev)]) @@ fs
          /\ pc' = next
          /\ exc' = exc
       \/ /\ fs' \in {fs, (path :> Truncated) @@ fs}
          /\ pc' = "raised"
          /\ exc' = [type |-> "OSError", filename |-> path]

\* Image.save(path): the file is written, or the write fails with an OSError
\* that leaves the file as it was or a truncated file in its place
save(plane, path, next) ==
    /\ attempted' = attempted \cup {path}
    /\ \/ /\ fs' = (path :> encode(plane)) @@ fs
          /\ pc' = next
          /\ exc' = exc
       \/ /\ fs' \in {fs, (path :> Truncated) @@ fs}
          /\ pc' = "raised"
          /\ exc' = [type |-> "OSError", filename |-> path]

\* line 33
SaveAO ==
    /\ pc = "save_ao"
    /\ save(r, ao_path, "save_roughness")
    /\ UNCHANGED <<file_path, locals, stdout, stages, fs0, prev>>

\* line 34
SaveRoughness ==
    /\ pc = "save_roughness"
    /\ save(g, roughness_path, "save_metallic")
    /\ UNCHANGED <<file_path, locals, stdout, stages, fs0, prev>>

\* line 35
SaveMetallic ==
    /\ pc = "save_metallic"
    /\ save(b, metallic_path, "print")
    /\ UNCHANGED <<file_path, locals, stdout, stages, fs0, prev>>

\* the report printed before the last save
Report_early ==
    /\ pc = "save_metallic"
    /\ stdout = <<>>
    /\ stdout' = Append(stdout,
                        <<"Saved:", ao_path, roughness_path, metallic_path>>)
    /\ stages' = Append(stages, "Written")
    /\ UNCHANGED <<pc, fs, file_path, locals, exc, attempted, fs0, prev>>

\* line 37
Report ==
    /\ pc = "print"
    /\ stdout' = Append(stdout,
                        <<"Saved:", ao_path, roughness_path, metallic_path>>)
    /\ stages' = Append(stages, "Written")
    /\ pc' = "returned"
    /\ UNCHANGED <<fs, file_path, locals, exc, attempted, fs0, prev>>

Ended == pc \in {"returned", "raised"}

\* lines 39-40: the script is run once more, on the files the first run left
Rerun ==
    /\ Ended
    /\ prev = <<>>
    /\ prev' = <<[file_path |-> file_path, pc |-> pc, stages |-> stages,
                 fs0 |-> fs0, fs |-> fs,
                 outputs |-> <<ao_path, roughness_path, metallic_path>>]>>
    /\ pc' = "select"
    /\ file_path' = None
    /\ img' = None /\ r' = None /\ g' = None /\ b' = None
    /\ folder' = None /\ filename' = None /\ name' = None /\ ext' = None
    /\ ao_path' = None /\ roughness_path' = None /\ metallic_path' = None
    /\ stdout' = <<>>
    /\ exc' = NoExc
    /\ stages' = <<>>
    /\ attempted' = {}
    /\ fs0' = fs
    /\ UNCHANGED fs

Next ==
    \/ Select
    \/ Open
    \/ Convert
    \/ Split
    \/ Paths
    \/ SaveAO
    \/ SaveRoughness
    \/ SaveMetallic
    \/ Report
    \/ Rerun

Spec == Init /\ [][Next]_vars

-----------------------------------------------------------------------------
(* What the claims speak of *)

EndsWith(p, suf) ==
    /\ Len(p) >= Len(suf)
    /\ SubSeq(p, Len(p) - Len(suf) + 1, Len(p)) = suf

Suffixes == <<AO_SUFFIX, ROUGHNESS_SUFFIX, METALLIC_SUFFIX>>

PNG_EXT == <<".", "p", "n", "g">>

\* the run has derived its output paths
PathsDerived == pc \in {"save_ao", "save_roughness", "save_metallic", "print"}
                \/ (pc = "returned" /\ file_path # Empty)
                \/ (pc = "raised" /\ exc.type = "OSError")

Outputs == <<ao_path, roughness_path, metallic_path>>

\* the run has split the image into its planes
PlanesExtracted == pc = "paths" \/ PathsDerived

\* the paths this run has saved a plane to
Saved == IF pc = "raised" /\ exc.type = "OSError"
         THEN attempted \ {exc.filename} ELSE attempted

\* the run returned after its three saves
Succeeded == pc = "returned" /\ file_path # Empty

\* file f is a single-band PNG of the size of im holding band i of im
IsBandOf(f, im, i) ==
    /\ f.fmt = "PNG"
    /\ f.mode = "L"
    /\ f.size = im.size
    /\ DOMAIN f.data = Coords(im.size)
    /\ \A xy \in Coords(im.size) : f.data[xy] = <<im.data[xy][i]>>

\* the source file as the run found it
Source == fs0[file_path]

\* C1: every file a run has saved is at a path ending in one of the three
\* suffixes, and the file at the path ending in _AO.png holds band 0 (R) of
\* the normalised image, the one ending in _Roughness.png band 1 (G), the one
\* ending in _Metallic.png band 2 (B), whatever the path, mode and content of
\* the source.
C1_FixedChannelMapping ==
    \A p \in Saved :
        /\ \E i \in 1..3 : EndsWith(p, Suffixes[i])
        /\ \A i \in 1..3 : EndsWith(p, Suffixes[i]) => IsBandOf(fs[p], img, i)

\* a run of an RGBA source whose three bands differ has saved all three files
C1_Witness ==
    /\ Succeeded
    /\ Source.mode = "RGBA"
    /\ Cardinality(Saved) = 3
    /\ \E xy \in Coords(img.size) :
         Cardinality({img.data[xy][1], img.data[xy][2], img.data[xy][3]}) = 3

\* the components of a path: its maximal runs of characters other than "/"
RECURSIVE Components(_)
Components(p) ==
    IF p = Empty THEN <<>>
    ELSE IF p[1] = sep THEN Components(Tail(p))
    ELSE LET stops == {i \in 1..Len(p) : p[i] = sep}
             n == IF stops = {} THEN Len(p)
                  ELSE (CHOOSE i \in stops : \A j \in stops : i <= j) - 1
         IN <<SubSeq(p, 1, n)>> \o Components(SubSeq(p, n + 1, Len(p)))

Front(q) == SubSeq(q, 1, Len(q) - 1)

\* file name fn has an extension that starts after its first k characters:
\* the dot there is its last one, and a character other than a dot precedes it
HasExt(fn, k) ==
    /\ k < Len(fn)
    /\ fn[k + 1] = extsep
    /\ \A i \in (k + 2)..Len(fn) : fn[i] # extsep
    /\ \E i \in 1..k : fn[i] # extsep

\* the first k characters of fn are fn with its last extension removed
WithoutLastExt(fn, k) ==
    \/ HasExt(fn, k)
    \/ (k = Len(fn) /\ \A j \in 0..(Len(fn) - 1) : ~HasExt(fn, j))

\* C2: the three output paths are D/N_AO.png, D/N_Roughness.png and
\* D/N_Metallic.png, D the directory of the source path P and N its file name
\* with the last extension removed: each is an absolute path with the
\* directory components of P followed by one file name, N and the suffix, so
\* each ends in .png whatever the extension of P; and a second run on the same
\* P derives the same three paths.
C2_OutputNaming ==
    PathsDerived =>
        /\ LET fn == LastComponent(file_path)
               dir == Front(Components(file_path))
           IN \E k \in 0..Len(fn) :
                /\ WithoutLastExt(fn, k)
                /\ \A i \in 1..3 :
                     /\ Outputs[i][1] = sep
                     /\ Components(Outputs[i])
                          = Append(dir, SubSeq(fn, 1, k) \o Suffixes[i])
                     /\ EndsWith(Outputs[i], PNG_EXT)
        /\ (prev # <<>> /\ prev[1].file_path = file_path
              /\ Len(prev[1].stages) >= 3)
             => prev[1].outputs = Outputs

\* the paths are derived for a source with two dots in its file name, whose
\* extension is not .png
C2_Witness ==
    /\ PathsDerived
    /\ Cardinality({i \in 1..Len(filename) : filename[i] = extsep}) >= 2
    /\ ext # Empty
    /\ ext # PNG_EXT

\* C3: for a source of three bands (mode RGB) of size W x H, each of the
\* three planes, and each file saved from it, has size W x H and at every
\* pixel the value of the source's band: AO band 0, Roughness band 1,
\* Metallic band 2.
C3_PlanesEqualChannels ==
    (PlanesExtracted /\ Source.mode = "RGB") =>
        /\ \A i \in 1..3 :
             LET plane == <<r, g, b>>[i]
             IN /\ plane.mode = "L"
                /\ plane.size = Source.size
                /\ DOMAIN plane.data = Coords(Source.size)
                /\ \A xy \in Coords(Source.size) :
                     plane.data[xy] = <<Source.data[xy][i]>>
        /\ PathsDerived =>
             \A i \in 1..3 : Outputs[i] \in Saved =>
                 IsBandOf(fs[Outputs[i]], decode(Source), i)

\* an RGB source of more than one pixel has been split and saved
C3_Witness ==
    /\ Succeeded
    /\ Source.mode = "RGB"
    /\ Cardinality(Coords(Source.size)) >= 2
    /\ Saved = {ao_path, roughness_path, metallic_path}

\* C4: for an RGBA source, the three planes are its R, G and B bands, and
\* every RGBA image of the same size with the same R, G and B values, whatever
\* its alpha band, gives the same three planes.
C4_AlphaNeverInfluences ==
    (PlanesExtracted /\ Source.mode = "RGBA") =>
        /\ \A i \in 1..3 : IsBandOf(encode(<<r, g, b>>[i]), decode(Source), i)
        /\ \A im \in Images :
             (/\ im.mode = "RGBA"
              /\ im.size = Source.size
              /\ \A xy \in Coords(im.size), i \in 1..3 :
                   im.data[xy][i] = Source.data[xy][i])
             => img_split(convert(im)) = <<r, g, b>>
        /\ PathsDerived =>
             \A i \in 1..3 : Outputs[i] \in Saved =>
                 IsBandOf(fs[Outputs[i]], decode(Source), i)

\* an RGBA source with an alpha band that is not opaque has been split, and
\* another source differs from it in alpha alone
C4_Witness ==
    /\ Succeeded
    /\ Source.mode = "RGBA"
    /\ \E xy \in Coords(Source.size) : Source.data[xy][4] # 255
    /\ \E im \in Images :
         /\ im.mode = "RGBA"
         /\ im.size = Source.size
         /\ \A xy \in Coords(im.size), i \in 1..3 :
              im.data[xy][i] = Source.data[xy][i]
         /\ \E xy \in Coords(im.size) : im.data[xy][4] # Source.data[xy][4]

\* the set of the three output paths
OutputSet == {ao_path, roughness_path, metallic_path}

\* the run has printed its report of the three saved paths
Reported == \E k \in 1..Len(stdout) : stdout[k][1] = "Saved:"

\* a save of this run failed
WriteFailed == pc = "raised" /\ exc.type = "OSError"

\* C5: when one of the three writes fails, the run has still attempted all
\* three writes, the two other files are on disk with their planes, and the
\* run reports which paths succeeded and which failed.
C5_AllWritesAttempted ==
    WriteFailed =>
        /\ attempted = OutputSet
        /\ \A i \in 1..3 : Outputs[i] # exc.filename =>
             /\ Outputs[i] \in DOMAIN fs
             /\ IsBandOf(fs[Outputs[i]], img, i)
        /\ stdout # <<>>

LoadErrors == {"FileNotFoundError", "UnidentifiedImageError"}

\* the selected source is missing or is no image
Unloadable == file_path \notin DOMAIN fs0 \/ ~Decodable(fs0[file_path])

\* C6: when the selected source does not exist or cannot be decoded, the run
\* ends with the error Image.open raised, before any stage has completed:
\* no save has been attempted, nothing is reported and the file system is as
\* the run found it; and a run ends with such an error in no other case.
C6_LoadErrorNoOutput ==
    /\ (pc \notin {"select", "open"} /\ file_path # Empty /\ Unloadable) =>
         /\ pc = "raised"
         /\ exc.type \in LoadErrors
         /\ exc.filename = file_path
    /\ (pc = "raised" /\ exc.type \in LoadErrors) =>
         /\ Unloadable
         /\ stages = <<>>
         /\ attempted = {}
         /\ fs = fs0
         /\ stdout = <<>>

\* a run fails on a missing source while other files exist
C6_Witness ==
    /\ pc = "raised"
    /\ exc.type = "FileNotFoundError"
    /\ fs # NoFiles
    /\ file_path \notin DOMAIN fs

\* the previous run returned after its three saves
PrevSucceeded ==
    /\ prev # <<>>
    /\ prev[1].pc = "returned"
    /\ prev[1].file_path # Empty

\* C7: a second run on the source path of a first run that succeeded derives
\* the same three paths, and as long as no write of it fails the file system
\* stays what the first run left: each save overwrites a file with identical
\* content and creates no file.
C7_Idempotent ==
    (PrevSucceeded /\ PathsDerived /\ ~WriteFailed
       /\ prev[1].file_path = file_path) =>
        /\ Outputs = prev[1].outputs
        /\ fs = prev[1].fs
        /\ DOMAIN fs = DOMAIN prev[1].fs
        /\ \A p \in Saved : fs[p] = prev[1].fs[p]

\* both runs succeeded on the same source, which is not the only file left
C7_Witness ==
    /\ PrevSucceeded
    /\ Succeeded
    /\ prev[1].file_path = file_path
    /\ Saved = OutputSet
    /\ Cardinality(DOMAIN fs) = 4

StageOrder == <<"Loaded", "Normalized", "Extracted", "Written">>

\* C8: the stages a run has completed are always the first ones of Loaded,
\* Normalized, Extracted, Written, in that order; a save is attempted, and the
\* file system changed, only after the image is loaded, has three bands and
\* is split into three planes; and the report is printed only after the three
\* planes are saved.
C8_StageOrder ==
    /\ Len(stages) <= 4
    /\ stages = SubSeq(StageOrder, 1, Len(stages))
    /\ (Len(stages) >= 2 => (img.mode = "RGB" /\ Bands(img.mode) = 3))
    /\ (attempted # {} \/ fs # fs0) =>
         /\ Len(stages) >= 3
         /\ \A i \in 1..3 : IsBandOf(encode(<<r, g, b>>[i]), img, i)
    /\ Reported <=> Len(stages) = 4
    /\ Reported =>
         /\ Saved = OutputSet
         /\ \A i \in 1..3 :
              /\ Outputs[i] \in DOMAIN fs
              /\ IsBandOf(fs[Outputs[i]], img, i)
         /\ stdout = <<<<"Saved:", ao_path, roughness_path, metallic_path>>>>

\* a run of a source that had to be converted has gone through all stages
C8_Witness ==
    /\ stages = StageOrder
    /\ Reported
    /\ Source.mode # "RGB"

\* C9: when the dialog returns an empty path the run prints "No file
\* selected." and returns: no image is opened, no plane made, no path
\* derived, no save attempted, no file created or changed, nothing else
\* printed.
C9_CancelDoesNothing ==
    (pc # "select" /\ file_path = Empty) =>
        /\ pc = "returned"
        /\ stdout = <<<<"No file selected.">>>>
        /\ exc = NoExc
        /\ <<img, r, g, b>> = <<None, None, None, None>>
        /\ <<folder, filename, name, ext>> = <<None, None, None, None>>
        /\ <<ao_path, roughness_path, metallic_path>> = <<None, None, None>>
        /\ stages = <<>>
        /\ attempted = {}
        /\ fs = fs0

\* the dialog is cancelled while files exist that a run could overwrite
C9_Witness ==
    /\ pc = "returned"
    /\ file_path = Empty
    /\ PrevSucceeded
    /\ Cardinality(DOMAIN fs) = 4

\* C10: the three output paths differ from each other and from the source
\* path, so the source file is never written and stays as it was, and after
\* the three saves each output file holds its own plane.
C10_OutputsDistinct ==
    PathsDerived =>
        /\ Cardinality({file_path, ao_path, roughness_path, metallic_path}) = 4
        /\ file_path \notin attempted
        /\ fs[file_path] = fs0[file_path]
        /\ \A i \in 1..3 : Outputs[i] \in Saved =>
             IsBandOf(fs[Outputs[i]], img, i)

\* a source whose base name ends in _AO and which has no extension
C10_Witness ==
    /\ Succeeded
    /\ EndsWith(name, <<"_", "A", "O">>)
    /\ ext = Empty

=============================================================================
